---- MODULE Spec2Model ----
(***************************************************************************)
(* Job lifecycle and inventory ledger of the print-shop management system. *)
(*                                                                         *)
(* The committed database rows are the state.  Every BaseModel.save() is   *)
(* db.session.add + db.session.commit, so every save is its own commit     *)
(* point.  Stock operations are modelled as request sessions that load the *)
(* Material row, mutate the loaded object and then run their commits one   *)
(* by one; two sessions may interleave at the commit points.               *)
(*                                                                         *)
(* Float quantities are fixed point: stock levels and quantities count     *)
(* hundredths of a unit of measure, so that the 0.05 margin is exact.      *)
(***************************************************************************)
EXTENDS Integers, Sequences, FiniteSets, TLC

\* ---------------------------------------------------------------- bounds
MaxOps == 2          \* requests started in one behaviour
MaxSessions == 2     \* request sessions that may be in flight together
MaxQty == 2          \* largest quantity of a request, in whole units
MaxInitStock == 2    \* largest initial stock level, in whole units
MaxMeter == 1        \* largest machine meter reading, in whole meters
MaxJobs == 2         \* rows the jobs table may hold
MaxTime == 4         \* last value of the clock: job-service calls stop there
MaxDate == 2         \* latest calendar date of a timeframe
MaxExpenseCalls == 2 \* expense requests made in one behaviour

\* ------------------------------------------------------ program constants
Unit == 100              \* one unit of measure in hundredths (Float column)
material_margin == 5     \* material_margin=0.05, in hundredths
CostPerSqMeter == 2      \* Material.cost_per_sq_meter of the stocked material

Materials == {1}                 \* ids of the rows of the materials table
MaterialIdInputs == {1, 2}       \* material ids a request may name (2: no row)
JobIds == 1..MaxJobs
JobIdInputs == 1..(MaxJobs + 1)  \* job ids a request may name
Sessions == 1..MaxSessions
Quantities == {k * Unit : k \in 1..MaxQty}
Wastages == {0, Unit}
StockLevels == {k * Unit : k \in 0..MaxQty}
Meters == 0..MaxMeter
Dates == 0..MaxDate              \* 0: the key is absent / the column is NULL
Absent == -1                     \* a datetime key missing from the payload
Phones == {"555-1234"}
Statuses == {"pending", "in_progress", "on_hold", "completed", "cancelled"}
\* JobCreateSchema.progress_status: validate.OneOf
CreationStatuses == {"pending", "in_progress", "completed"}
JobTypes == {"in_house", "outsourced"}
Reasons == {"NULL", "", "client withdrew"}   \* NULL: None or key absent
\* materials_schemas.py:181-187  the OneOf of adjustment_reason
AdjustmentReasonChoices ==
    {"INVENTORY_COUNT", "DAMAGE", "QUALITY_ISSUE", "SYSTEM_CORRECTION", "OTHER"}
\* payload values of adjustment_reason and notes ("NULL": key absent)
AdjustmentReasons == {"NULL", "INVENTORY_COUNT", "LOST"}
AdjustmentNotes == {"NULL", "", "recount"}
Notes == {"NULL", "started"}

VARIABLES
    stock_level,          \* Material.stock_level of every material row
    initial_stock,        \* stock_level of every material at the start
    stock_transactions,   \* StockTransaction rows, in insertion order
    material_usages,      \* MaterialUsage rows
    machine_readings,     \* MachineReading rows
    job_material_usages,  \* JobMaterialUsage rows
    sess,                 \* the request sessions of the stock operations
    ops,                  \* requests started so far
    jobs,                 \* Job rows by id
    job_expenses,         \* JobExpense rows
    job_notes,            \* JobNote rows
    timeframe_logs,       \* JobTimeframeChangeLog rows
    clients,              \* Client rows (phone numbers), in insertion order
    now,                  \* datetime.now()
    last                  \* the last completed job-service call

vars == <<stock_level, initial_stock, stock_transactions, material_usages,
          machine_readings, job_material_usages, sess, ops, jobs,
          job_expenses, job_notes, timeframe_logs, clients, now, last>>

stockVars == <<stock_level, initial_stock, stock_transactions,
               material_usages, machine_readings, job_material_usages,
               sess, ops>>

jobVars == <<jobs, job_expenses, job_notes, timeframe_logs, clients, now,
            last>>

\* ------------------------------------------------------------------ rows
\* total_profit is a nullable column: <<>> is NULL, <<v>> the value v
NoJob ==
    [exists |-> FALSE, client_id |-> 0, progress_status |-> "pending", job_type |-> "in_house",
     start_date |-> 0, end_date |-> 0, completed_at |-> 0, cancelled_at |-> 0,
     cancellation_reason |-> "NULL", last_status_change |-> 0,
     total_cost |-> 0, total_amount |-> 0, amount_paid |-> 0,
     payment_status |-> "Unpaid", total_profit |-> <<>>]

\* Job(...) of _create_job_record: the column defaults of models/job.py
NewJob(client, status, jtype, cost) ==
    [NoJob EXCEPT !.exists = TRUE, !.client_id = client,
                  !.progress_status = status,
                  !.job_type = jtype, !.total_cost = cost]

IdleSession ==
    [op |-> "none", pc |-> "idle", rid |-> 0, material_id |-> 0, job_id |-> 0,
     quantity |-> 0, wastage |-> 0, start_meter |-> 0, end_meter |-> 0,
     stock_seen |-> 0, stock_new |-> 0, stock_written |-> FALSE, peer |-> 0,
     adjustment_reason |-> "NULL", notes |-> "NULL", job_seen |-> NoJob,
     phone_number |-> "NULL", client_id |-> 0, result |-> "none"]

NoData == [progress_status |-> "pending", notes |-> "NULL",
           completed_at |-> Absent, reason_for_status_change |-> "NULL"]

\* the record of a job-service call: the job object as the caller passed
\* it (before), as the call left it in the session (after), and the outcome
NoCall == [op |-> "none", job_id |-> 0, data |-> NoData, result |-> "none",
           before |-> NoJob, after |-> NoJob]

RECURSIVE SumQuantity(_, _)
\* sum of the quantity column of the transactions of material m
SumQuantity(txs, m) ==
    IF txs = <<>> THEN 0
    ELSE (IF Head(txs).material_id = m THEN Head(txs).quantity ELSE 0)
         + SumQuantity(Tail(txs), m)

\* ------------------------------------------------- the inventory ledger
\* the check with only an empty stock counted as insufficient
InsufficientStock_only_when_empty(level, total_deduction) == level <= 0

\* material_service.py:176  `if material.stock_level < total_deduction`
InsufficientStock(level, total_deduction) == level < total_deduction

\* job_service.py:22  calculate_material_usage(start_meter, end_meter)
calculate_material_usage(start_meter, end_meter) ==
    (end_meter - start_meter) * (Unit + material_margin)

\* a session may start a request: it is free and the run is within MaxOps
CanStart(s) == sess[s].pc \in {"idle", "done"} /\ ops < MaxOps

\* rid of another session that has loaded material m and has not yet
\* committed it (0 when there is none)
PeerOf(s, m) ==
    IF \E t \in Sessions : t # s /\ sess[t].pc = "material_save"
                                /\ sess[t].material_id = m
    THEN sess[CHOOSE t \in Sessions : t # s /\ sess[t].pc = "material_save"
                                            /\ sess[t].material_id = m].rid
    ELSE 0

Fail(r, why) == [r EXCEPT !.pc = "done", !.result = why]

\* the stock is noted as previous_stock after the object is mutated
Loaded_snapshot_after_update(r, m, newLevel) ==
    [r EXCEPT !.pc = "material_save", !.stock_seen = newLevel,
              !.stock_new = newLevel]

\* the loaded Material is mutated in the session; its save comes next
Loaded(r, m, newLevel) ==
    [r EXCEPT !.pc = "material_save", !.stock_seen = stock_level[m],
              !.stock_new = newLevel]

\* MaterialService.record_material_usage up to its first save
record_material_usage(s, m, q, w, j) ==
    /\ CanStart(s)
    /\ LET r == [IdleSession EXCEPT !.op = "record_material_usage",
                     !.rid = ops + 1, !.material_id = m, !.job_id = j,
                     !.quantity = q, !.wastage = w, !.peer = PeerOf(s, m)]
           total_deduction == q + w
       IN sess' = [sess EXCEPT ![s] =
            IF m \notin Materials THEN Fail(r, "NotFound")
            ELSE IF q <= 0 THEN
                Fail([r EXCEPT !.stock_seen = stock_level[m]], "InvalidQuantity")
            ELSE IF w < 0 THEN
                Fail([r EXCEPT !.stock_seen = stock_level[m]], "InvalidQuantity")
            ELSE IF InsufficientStock(stock_level[m], total_deduction) THEN
                Fail([r EXCEPT !.stock_seen = stock_level[m]], "InsufficientStock")
            ELSE Loaded(r, m, stock_level[m] - total_deduction)]
    /\ ops' = ops + 1
    /\ UNCHANGED <<stock_level, initial_stock, stock_transactions,
                   material_usages, machine_readings, job_material_usages>>
    /\ UNCHANGED jobVars

\* MaterialService.restock_material up to its first save
restock_material(s, m, q) ==
    /\ CanStart(s)
    /\ LET r == [IdleSession EXCEPT !.op = "restock_material",
                     !.rid = ops + 1, !.material_id = m, !.quantity = q,
                     !.peer = PeerOf(s, m)]
       IN sess' = [sess EXCEPT ![s] =
            IF m \notin Materials THEN Fail(r, "NotFound")
            ELSE IF q <= 0 THEN
                Fail([r EXCEPT !.stock_seen = stock_level[m]], "InvalidQuantity")
            ELSE Loaded(r, m, stock_level[m] + q)]
    /\ ops' = ops + 1
    /\ UNCHANGED <<stock_level, initial_stock, stock_transactions,
                   material_usages, machine_readings, job_material_usages>>
    /\ UNCHANGED jobVars

\* materials_schemas.py:181-203  StockAdjustmentSchema: adjustment_reason
\* and notes are both accepted when absent
StockAdjustmentSchema_reason_optional(adjustment_reason, notes) ==
    /\ adjustment_reason \in AdjustmentReasonChoices \cup {"NULL"}
    /\ notes # ""

\* materials_schemas.py:181-203  StockAdjustmentSchema: adjustment_reason
\* is required and one of the listed choices, notes is required and of
\* length 1..255 ("NULL" is the absent key)
StockAdjustmentSchema(adjustment_reason, notes) ==
    /\ adjustment_reason \in AdjustmentReasonChoices
    /\ notes \notin {"NULL", ""}

\* routes/materials.py adjust_stock: schema.load, then
\* MaterialService.adjust_stock up to its first save
adjust_stock(s, m, new_stock, adjustment_reason, notes) ==
    /\ CanStart(s)
    /\ LET r == [IdleSession EXCEPT !.op = "adjust_stock",
                     !.rid = ops + 1, !.material_id = m,
                     !.quantity = new_stock, !.peer = PeerOf(s, m),
                     !.adjustment_reason = adjustment_reason,
                     !.notes = notes]
       IN sess' = [sess EXCEPT ![s] =
            IF ~StockAdjustmentSchema(adjustment_reason, notes)
            THEN Fail(r, "ValidationError")
            ELSE IF m \notin Materials THEN Fail(r, "NotFound")
            ELSE IF new_stock < 0 THEN
                Fail([r EXCEPT !.stock_seen = stock_level[m]], "InvalidQuantity")
            ELSE Loaded(r, m, new_stock)]
    /\ ops' = ops + 1
    /\ UNCHANGED <<stock_level, initial_stock, stock_transactions,
                   material_usages, machine_readings, job_material_usages>>
    /\ UNCHANGED jobVars

\* routes/in_house_printing.py log_machine_usage up to material.save() of
\* MaterialService.deduct_material_usage: no sufficiency check anywhere
log_machine_usage(s, j, m, start_meter, end_meter) ==
    /\ CanStart(s)
    /\ LET r == [IdleSession EXCEPT !.op = "log_machine_usage",
                     !.rid = ops + 1, !.material_id = m, !.job_id = j,
                     !.start_meter = start_meter, !.end_meter = end_meter,
                     !.quantity = calculate_material_usage(start_meter, end_meter),
                     !.peer = PeerOf(s, m)]
       IN sess' = [sess EXCEPT ![s] =
            IF j \notin JobIds \/ ~jobs[j].exists THEN Fail(r, "NotFound")
            ELSE IF m \notin Materials THEN Fail(r, "NotFound")
            ELSE Loaded(r, m, stock_level[m] - r.quantity)]
    /\ ops' = ops + 1
    /\ UNCHANGED <<stock_level, initial_stock, stock_transactions,
                   material_usages, machine_readings, job_material_usages>>
    /\ UNCHANGED jobVars

\* JobMaterialService.update up to material.save()
JobMaterialService_update(s, j, m, usage_meters) ==
    /\ CanStart(s)
    /\ j \in JobIds /\ jobs[j].exists          \* Job.query.get_or_404
    /\ LET r == [IdleSession EXCEPT !.op = "JobMaterialService_update",
                     !.rid = ops + 1, !.material_id = m, !.job_id = j,
                     !.quantity = usage_meters, !.peer = PeerOf(s, m)]
       IN sess' = [sess EXCEPT ![s] =
            IF jobs[j].job_type = "outsourced" THEN Fail(r, "InvalidJobType")
            ELSE IF m \notin Materials THEN Fail(r, "NotFound")
            ELSE IF stock_level[m] < usage_meters THEN
                Fail([r EXCEPT !.stock_seen = stock_level[m]], "InsufficientStock")
            ELSE Loaded(r, m, stock_level[m] - usage_meters)]
    /\ ops' = ops + 1
    /\ UNCHANGED <<stock_level, initial_stock, stock_transactions,
                   material_usages, machine_readings, job_material_usages>>
    /\ UNCHANGED jobVars

\* BaseModel.save of the loaded Material: the UPDATE writes the value the
\* session computed from the stock it loaded
material_save(s) ==
    /\ sess[s].pc = "material_save"
    /\ stock_level' = [stock_level EXCEPT ![sess[s].material_id] = sess[s].stock_new]
    /\ sess' = [sess EXCEPT ![s].pc = "row_save", ![s].stock_written = TRUE]
    /\ UNCHANGED <<initial_stock, stock_transactions, material_usages,
                   machine_readings, job_material_usages, ops>>
    /\ UNCHANGED jobVars

\* the save of a transaction replaces the material's latest row
StockTransaction_save_upsert(rows, row) ==
    IF \E i \in 1..Len(rows) : rows[i].material_id = row.material_id
    THEN [rows EXCEPT ![CHOOSE i \in 1..Len(rows) :
                          /\ rows[i].material_id = row.material_id
                          /\ \A k \in (i + 1)..Len(rows) :
                                rows[k].material_id # row.material_id] = row]
    ELSE Append(rows, row)

\* material_service.py:254, 298  transaction.save() of a StockTransaction
\* object built by the call: db.session.add of a new object is an INSERT
StockTransaction_save(rows, row) == Append(rows, row)

\* BaseModel.save of the row the operation builds (the second commit):
\* the INSERT either commits or raises and is rolled back
row_save(s, committed) ==
    /\ sess[s].pc = "row_save"
    /\ LET r == sess[s]
           m == r.material_id
       IN /\ sess' = [sess EXCEPT ![s].pc = "done",
                         ![s].result = IF committed THEN "ok" ELSE "Error"]
          /\ material_usages' =
                IF committed /\ r.op = "record_material_usage"
                THEN Append(material_usages,
                        [rid |-> r.rid, material_id |-> m, job_id |-> r.job_id,
                         quantity_used |-> r.quantity, wastage |-> r.wastage])
                ELSE material_usages
          /\ stock_transactions' =
                IF committed /\ r.op = "restock_material"
                THEN StockTransaction_save(stock_transactions,
                        [rid |-> r.rid, material_id |-> m,
                         transaction_type |-> "RESTOCK",
                         quantity |-> r.quantity,
                         previous_stock |-> r.stock_seen,
                         new_stock |-> r.stock_new])
                ELSE IF committed /\ r.op = "adjust_stock"
                THEN StockTransaction_save(stock_transactions,
                        [rid |-> r.rid, material_id |-> m,
                         transaction_type |-> "ADJUSTMENT",
                         quantity |-> r.quantity - r.stock_seen,
                         previous_stock |-> r.stock_seen,
                         new_stock |-> r.quantity])
                ELSE stock_transactions
          /\ machine_readings' =
                IF committed /\ r.op = "log_machine_usage"
                THEN Append(machine_readings,
                        [rid |-> r.rid, job_id |-> r.job_id, material_id |-> m,
                         start_meter |-> r.start_meter,
                         end_meter |-> r.end_meter,
                         material_usage |-> r.quantity])
                ELSE machine_readings
          /\ job_material_usages' =
                IF committed /\ r.op = "JobMaterialService_update"
                THEN Append(job_material_usages,
                        [rid |-> r.rid, job_id |-> r.job_id, material_id |-> m,
                         usage_meters |-> r.quantity,
                         cost |-> CostPerSqMeter * r.quantity])
                ELSE job_material_usages
          \* the commit of the usage row also flushes job.total_cost
          /\ jobs' =
                IF committed /\ r.op = "JobMaterialService_update"
                THEN [jobs EXCEPT ![r.job_id].total_cost =
                         @ + CostPerSqMeter * r.quantity]
                ELSE jobs
    /\ UNCHANGED <<stock_level, initial_stock, ops>>
    /\ UNCHANGED <<job_expenses, job_notes, timeframe_logs, clients, now,
                   last>>

InitJobs == [j \in JobIds |-> IF j = 1 THEN NewJob(1, "pending", "in_house", 0)
                                      ELSE NoJob]

InitStock ==
    /\ stock_level \in [Materials -> {k * Unit : k \in 0..MaxInitStock}]
    /\ initial_stock = stock_level
    /\ stock_transactions = <<>>
    /\ material_usages = <<>>
    /\ machine_readings = <<>>
    /\ job_material_usages = <<>>
    /\ sess = [s \in Sessions |-> IdleSession]
    /\ ops = 0
    /\ jobs = InitJobs
    /\ job_expenses = <<>>
    /\ job_notes = <<>>
    /\ timeframe_logs = <<>>
    /\ clients = <<"555-1234">>
    /\ now = 1
    /\ last = NoCall

NextStock ==
    \/ \E s \in Sessions, m \in MaterialIdInputs, q \in Quantities,
          w \in Wastages, j \in {i \in JobIds : jobs[i].exists} :
            record_material_usage(s, m, q, w, j)
    \/ \E s \in Sessions, m \in MaterialIdInputs, q \in Quantities :
          restock_material(s, m, q)
    \/ \E s \in Sessions, m \in MaterialIdInputs, n \in StockLevels :
          adjust_stock(s, m, n, "INVENTORY_COUNT", "recount")
    \/ \E s \in Sessions, j \in JobIdInputs, m \in MaterialIdInputs,
          a \in Meters, b \in Meters : log_machine_usage(s, j, m, a, b)
    \/ \E s \in Sessions, j \in JobIds, m \in MaterialIdInputs,
          q \in Quantities : JobMaterialService_update(s, j, m, q)
    \/ \E s \in Sessions : material_save(s)
    \/ \E s \in Sessions, committed \in BOOLEAN : row_save(s, committed)

SpecStock == InitStock /\ [][NextStock]_vars

\* ------------------------------------------------ the job state machine
\* the table with completed jobs also allowed to be cancelled
allowed_transitions_completed_cancellable(previous_status) ==
    CASE previous_status = "pending" -> {"in_progress", "cancelled"}
      [] previous_status = "in_progress" -> {"on_hold", "completed", "cancelled"}
      [] previous_status = "on_hold" -> {"in_progress", "cancelled"}
      [] previous_status = "completed" -> {"in_progress", "cancelled"}
      [] previous_status = "cancelled" -> {}

\* the table with cancelled jobs allowed to be reopened
allowed_transitions_cancelled_reopens(previous_status) ==
    CASE previous_status = "pending" -> {"in_progress", "cancelled"}
      [] previous_status = "in_progress" -> {"on_hold", "completed", "cancelled"}
      [] previous_status = "on_hold" -> {"in_progress", "cancelled"}
      [] previous_status = "completed" -> {"in_progress"}
      [] previous_status = "cancelled" -> {"in_progress"}

\* job_service_v2.py:236-254  allowed_transitions
allowed_transitions(previous_status) ==
    CASE previous_status = "pending" -> {"in_progress", "cancelled"}
      [] previous_status = "in_progress" -> {"on_hold", "completed", "cancelled"}
      [] previous_status = "on_hold" -> {"in_progress", "cancelled"}
      [] previous_status = "completed" -> {"in_progress"}
      [] previous_status = "cancelled" -> {}

\* Python truthiness of an optional string: None and "" are falsy
Truthy(str) == str \notin {"NULL", ""}

ProgressData ==
    [progress_status : Statuses, notes : Notes,
     completed_at : {Absent, 0, MaxTime + 1},
     reason_for_status_change : Reasons]

\* completion that finalizes the billing: the job counts as settled
handle_job_completion_settles(job) ==
    [job EXCEPT !.amount_paid = job.total_amount, !.payment_status = "Paid"]

\* job_service_v2.py:280-286, job_service.py:181-184
\* _handle_job_completion: `pass`
handle_job_completion(job) == job

\* JobProgressService.update of job_service_v2.py on the job object:
\* the object as the call leaves it, the outcome, and whether job.save()
\* (or the note's save, which flushes the job too) committed it
JobProgressService_update_call(job, data, t) ==
    LET new_status == data.progress_status
        moved == [job EXCEPT !.progress_status = new_status,
                             !.last_status_change = t]
    IN  IF new_status \notin allowed_transitions(job.progress_status)
        THEN [after |-> job, result |-> "InvalidTransition", committed |-> FALSE]
        ELSE IF new_status = "completed"
        THEN [after |-> handle_job_completion(
                            [moved EXCEPT !.completed_at =
                                IF data.completed_at = Absent THEN t
                                ELSE data.completed_at]),
              result |-> "ok", committed |-> TRUE]
        ELSE IF new_status = "cancelled"
        THEN LET cancelled == [moved EXCEPT !.cancelled_at = t,
                    !.cancellation_reason = data.reason_for_status_change]
             IN  IF ~Truthy(cancelled.cancellation_reason)
                 THEN [after |-> cancelled, result |-> "MissingReason",
                       committed |-> FALSE]
                 ELSE [after |-> cancelled, result |-> "ok", committed |-> TRUE]
        ELSE [after |-> moved, result |-> "ok", committed |-> TRUE]

\* JobProgressService.update of job_service.py: the same table, no check
\* of the cancellation reason
legacy_JobProgressService_update_call(job, data, t) ==
    LET new_status == data.progress_status
        moved == [job EXCEPT !.progress_status = new_status,
                             !.last_status_change = t]
    IN  IF new_status \notin allowed_transitions(job.progress_status)
        THEN [after |-> job, result |-> "InvalidTransition", committed |-> FALSE]
        ELSE IF new_status = "completed"
        THEN [after |-> handle_job_completion(
                            [moved EXCEPT !.completed_at =
                                IF data.completed_at = Absent THEN t
                                ELSE data.completed_at]),
              result |-> "ok", committed |-> TRUE]
        ELSE IF new_status = "cancelled"
        THEN [after |-> [moved EXCEPT !.cancelled_at = t,
                    !.cancellation_reason = data.reason_for_status_change],
              result |-> "ok", committed |-> TRUE]
        ELSE [after |-> moved, result |-> "ok", committed |-> TRUE]

TimeLeft == now < MaxTime

\* the effect of a progress update on the database: the job row when the
\* call committed, and the JobNote of _add_job_note
ProgressEffect(opname, j, data, call) ==
    /\ jobs' = IF call.committed THEN [jobs EXCEPT ![j] = call.after] ELSE jobs
    /\ job_notes' = IF call.committed /\ Truthy(data.notes)
                    THEN Append(job_notes, [job_id |-> j, note |-> data.notes])
                    ELSE job_notes
    /\ last' = [op |-> opname, job_id |-> j, data |-> data,
                result |-> call.result, before |-> jobs[j],
                after |-> call.after]
    /\ now' = now + 1
    /\ UNCHANGED <<job_expenses, timeframe_logs, clients>>
    /\ UNCHANGED stockVars

\* PATCH /print/jobs/<job_id>/progress: routes/jobs.py update_job_progress
JobProgressService_update(j, data) ==
    /\ TimeLeft
    /\ j \in JobIds /\ jobs[j].exists               \* Job.query.get_or_404
    /\ ProgressEffect("JobProgressService_update", j, data,
                      JobProgressService_update_call(jobs[j], data, now))

\* PATCH /in-house/update_job/<job_id> with a progress payload
legacy_JobProgressService_update(j, data) ==
    /\ TimeLeft
    /\ j \in JobIds /\ jobs[j].exists
    /\ ProgressEffect("legacy_JobProgressService_update", j, data,
                      legacy_JobProgressService_update_call(jobs[j], data, now))

\* ----------------------------------------------------- expense allocation
Range(seq) == {seq[i] : i \in 1..Len(seq)}

\* the target job ids with the primary job left out of a shared expense
all_job_ids_without_primary(primary, expense) ==
    IF expense.shared
    THEN IF expense.job_ids # <<>>
         THEN Range(expense.job_ids)
         ELSE {primary}
    ELSE {primary}

\* job_service_v2.py:113-120  the target job ids of an expense
all_job_ids(primary, expense) ==
    IF expense.shared
    THEN IF expense.job_ids # <<>>
         THEN Range(expense.job_ids) \cup {primary}
         ELSE {primary}
    ELSE {primary}

\* the iteration order of a Python set: the ids of S in the order of ord
InOrder(ord, S) == SelectSeq(ord, LAMBDA x : x \in S)

RECURSIVE AllocateLoop(_, _, _, _, _)
\* job_service_v2.py:123-140  the loop over all_job_ids; every save commits
AllocateLoop(order, primary, cost, js, exps) ==
    IF order = <<>>
    THEN [jobs |-> js, job_expenses |-> exps, result |-> "ok"]
    ELSE LET jid == Head(order) IN
         IF jid \notin JobIds \/ ~js[jid].exists
         THEN [jobs |-> js, job_expenses |-> exps, result |-> "NotFound"]
         ELSE AllocateLoop(Tail(order), primary, cost,
                IF jid = primary
                THEN [js EXCEPT ![jid].total_cost = @ + cost]
                ELSE js,
                Append(exps, [job_id |-> jid, cost |-> cost]))

\* ExpenseService._allocate_expense
allocate_expense(primary, expense, ord, js, exps) ==
    AllocateLoop(InOrder(ord, all_job_ids(primary, expense)), primary,
                 expense.cost, js, exps)

RECURSIVE allocate_expenses(_, _, _, _, _)
\* ExpenseService.allocate_expenses: stops at the first expense that raises
allocate_expenses(primary, expenses, ord, js, exps) ==
    IF expenses = <<>>
    THEN [jobs |-> js, job_expenses |-> exps, result |-> "ok"]
    ELSE LET one == allocate_expense(primary, Head(expenses), ord, js, exps)
         IN  IF one.result # "ok" THEN one
             ELSE allocate_expenses(primary, Tail(expenses), ord,
                                    one.jobs, one.job_expenses)

\* ------------------------------------------------------------ job creation
JobIdLists ==
    {<<>>} \cup {<<a>> : a \in JobIdInputs}
           \cup {<<a, b>> : a \in JobIdInputs, b \in JobIdInputs}

Expenses == [cost : {Unit}, shared : BOOLEAN, job_ids : JobIdLists]
ExpenseLists == {<<>>} \cup {<<e>> : e \in Expenses}
\* the expenses of a creation payload: at most one, naming at most one job
CreateExpenseLists == {es \in ExpenseLists :
                          \A i \in 1..Len(es) : Len(es[i].job_ids) <= 1}

\* the orders in which a set of job ids may be iterated
Orders == {ord \in [1..(MaxJobs + 1) -> JobIdInputs] :
              \A a \in 1..(MaxJobs + 1), b \in 1..(MaxJobs + 1) :
                  a # b => ord[a] # ord[b]}

\* the order matters only to an expense that names other jobs
OrdersFor(expenses) ==
    IF \E i \in 1..Len(expenses) :
          expenses[i].shared /\ expenses[i].job_ids # <<>>
    THEN Orders
    ELSE {[i \in 1..(MaxJobs + 1) |-> i]}

\* the id the next INSERT into jobs gets
NextJobId == Cardinality({j \in JobIds : jobs[j].exists}) + 1

\* find_or_create_client: the client rows after the call, the client's id
find_or_create_client(phone_number) ==
    IF phone_number \in Range(clients) THEN clients
    ELSE Append(clients, phone_number)

ClientId(rows, phone_number) ==
    CHOOSE i \in 1..Len(rows) : rows[i] = phone_number

\* job_service_v2.py:186-193  `start > end` when both dates are given
InvalidTimeframe(start, end) == end # 0 /\ start # 0 /\ start > end

\* POST /print/jobs: routes/jobs.py create_job and JobService.create_job of
\* job_service_v2.py: client, job row, expenses, each save a commit; the
\* except branch rolls back what is not yet committed
create_job(phone, status, jtype, start, end, pricing_input, expenses, ord) ==
    /\ TimeLeft
    /\ NextJobId \in JobIds
    /\ LET id == NextJobId
           rows == find_or_create_client(phone)
           job == [NewJob(ClientId(rows, phone), status, jtype, pricing_input)
                     EXCEPT !.start_date = start, !.end_date = end]
           alloc == allocate_expenses(id, expenses, ord,
                                      [jobs EXCEPT ![id] = job], job_expenses)
       IN /\ clients' = rows
          /\ IF InvalidTimeframe(start, end)
             THEN /\ UNCHANGED <<jobs, job_expenses>>
                  /\ last' = [op |-> "create_job", job_id |-> 0,
                              data |-> NoData, result |-> "InvalidRange",
                              before |-> NoJob, after |-> job]
             ELSE /\ jobs' = alloc.jobs
                  /\ job_expenses' = alloc.job_expenses
                  /\ last' = [op |-> "create_job", job_id |-> id,
                              data |-> NoData, result |-> alloc.result,
                              before |-> NoJob, after |-> alloc.jobs[id]]
    /\ now' = now + 1
    /\ UNCHANGED <<job_notes, timeframe_logs>>
    /\ UNCHANGED stockVars

\* POST /in-house/new_job: JobService.create_job of job_service.py, which
\* also handles the initial material usage; job.save() and material.save()
\* commit inside the enclosing block
legacy_create_job(client, status, start, end, pricing_input, m, usage, expenses, ord) ==
    /\ TimeLeft
    /\ NextJobId \in JobIds
    /\ LET id == NextJobId
           job == [NewJob(client, status, "in_house", pricing_input)
                     EXCEPT !.start_date = start, !.end_date = end]
           created == [jobs EXCEPT ![id] = job]
           uses == m # 0 /\ usage > 0
           stocked == [created EXCEPT ![id].total_cost =
                          @ + CostPerSqMeter * usage]
           alloc == allocate_expenses(id, expenses, ord,
                        IF uses THEN stocked ELSE created, job_expenses)
           fail(js, why) ==
               /\ jobs' = js
               /\ UNCHANGED <<job_expenses, stock_level>>
               /\ last' = [op |-> "legacy_create_job",
                           job_id |-> IF js = jobs THEN 0 ELSE id,
                           data |-> NoData, result |-> why,
                           before |-> NoJob, after |-> job]
       IN IF InvalidTimeframe(start, end) THEN fail(jobs, "InvalidRange")
          ELSE IF uses /\ m \notin Materials THEN fail(created, "NotFound")
          ELSE IF uses /\ stock_level[m] < usage
               THEN fail(created, "InsufficientStock")
          ELSE /\ stock_level' = IF uses
                                 THEN [stock_level EXCEPT ![m] = @ - usage]
                                 ELSE stock_level
               /\ jobs' = alloc.jobs
               /\ job_expenses' = alloc.job_expenses
               /\ last' = [op |-> "legacy_create_job", job_id |-> id,
                           data |-> NoData, result |-> alloc.result,
                           before |-> NoJob, after |-> alloc.jobs[id]]
    /\ now' = now + 1
    /\ UNCHANGED <<job_notes, timeframe_logs, clients>>
    /\ UNCHANGED <<initial_stock, stock_transactions, material_usages,
                   machine_readings, job_material_usages, sess, ops>>

InitJobSpec ==
    /\ stock_level \in [Materials -> {k * Unit : k \in 0..MaxInitStock}]
    /\ initial_stock = stock_level
    /\ stock_transactions = <<>>
    /\ material_usages = <<>>
    /\ machine_readings = <<>>
    /\ job_material_usages = <<>>
    /\ sess = [s \in Sessions |-> IdleSession]
    /\ ops = 0
    /\ \E status \in CreationStatuses :
          jobs = [j \in JobIds |->
                    IF j = 1 THEN NewJob(1, status, "in_house", 0) ELSE NoJob]
    /\ job_expenses = <<>>
    /\ job_notes = <<>>
    /\ timeframe_logs = <<>>
    /\ clients = <<"555-1234">>
    /\ now = 1
    /\ last = NoCall

\* the job state machine: progress updates of existing jobs
NextProgress ==
    \/ \E j \in JobIdInputs, data \in ProgressData :
          JobProgressService_update(j, data)
    \/ \E j \in JobIdInputs, data \in ProgressData :
          legacy_JobProgressService_update(j, data)

SpecProgress == InitJobSpec /\ [][NextProgress]_vars

\* job creation
NextCreate ==
    \/ \E phone \in Phones, status \in CreationStatuses, jtype \in JobTypes,
          start \in Dates, end \in Dates, expenses \in CreateExpenseLists :
          \E ord \in OrdersFor(expenses) :
            create_job(phone, status, jtype, start, end, Unit, expenses, ord)
    \/ \E status \in CreationStatuses, start \in Dates, end \in Dates,
          mu \in {<<0, 0>>} \cup (MaterialIdInputs \X Quantities),
          expenses \in CreateExpenseLists :
          \E ord \in OrdersFor(expenses) :
            legacy_create_job(1, status, start, end, Unit, mu[1], mu[2],
                              expenses, ord)

SpecCreate == InitJobSpec /\ [][NextCreate]_vars

\* ------------------------------------------- expenses of existing jobs
\* job_service_v2.py:135-140  one allocation record per iteration of the loop
allocated_records(order, cost) ==
    [i \in 1..Len(order) |-> [job_id |-> order[i], cost |-> cost]]

RECURSIVE allocated_expenses(_, _, _)
\* job_service_v2.py:93-99  the records a successful allocate_expenses returns
allocated_expenses(primary, expenses, ord) ==
    IF expenses = <<>> THEN <<>>
    ELSE allocated_records(InOrder(ord, all_job_ids(primary, Head(expenses))),
                           Head(expenses).cost)
         \o allocated_expenses(primary, Tail(expenses), ord)

\* the clock counts the expense requests made so far
ExpenseCallsLeft == now <= MaxExpenseCalls

\* the distinct orders in which the target jobs of the payload may be visited
TargetOrders(primary, expenses) ==
    {InOrder(ord, UNION {all_job_ids(primary, expenses[i]) :
                            i \in 1..Len(expenses)}) :
        ord \in OrdersFor(expenses)}

\* POST /print/jobs/<job_id>/expenses: routes/jobs.py add_job_expenses, which
\* hands every expense of the payload to ExpenseService.allocate_expenses
add_job_expenses(j, expenses, ord) ==
    /\ ExpenseCallsLeft
    /\ j \in JobIds /\ jobs[j].exists               \* Job.query.get_or_404
    /\ LET alloc == allocate_expenses(j, expenses, ord, jobs, job_expenses)
       IN /\ jobs' = alloc.jobs
          /\ job_expenses' = alloc.job_expenses
          /\ last' = [op |-> "add_job_expenses", job_id |-> j,
                      data |-> [expenses |-> expenses],
                      result |-> alloc.result,
                      before |-> jobs[j], after |-> alloc.jobs[j],
                      records |-> IF alloc.result = "ok"
                                  THEN allocated_expenses(j, expenses, ord)
                                  ELSE <<>>]
    /\ now' = now + 1
    /\ UNCHANGED <<job_notes, timeframe_logs, clients>>
    /\ UNCHANGED stockVars

RECURSIVE SumCosts(_)
\* job_service_v2.py:366-377  total_expense of the loop over data['expenses']
SumCosts(costs) ==
    IF costs = <<>> THEN 0 ELSE Head(costs) + SumCosts(Tail(costs))

\* JobExpenseService.update of both services: one JobExpense row of the job
\* per entry, then job.total_cost += total_expense and the final commit
ExpenseUpdateEffect(opname, j, costs) ==
    /\ job_expenses' = job_expenses \o
            [i \in 1..Len(costs) |-> [job_id |-> j, cost |-> costs[i]]]
    /\ jobs' = [jobs EXCEPT ![j].total_cost = @ + SumCosts(costs)]
    /\ last' = [op |-> opname, job_id |-> j, data |-> [expenses |-> costs],
                result |-> "ok", before |-> jobs[j], after |-> jobs'[j]]
    /\ now' = now + 1
    /\ UNCHANGED <<job_notes, timeframe_logs, clients>>
    /\ UNCHANGED stockVars

\* JobExpenseService.update of job_service_v2.py
JobExpenseService_update(j, costs) ==
    /\ ExpenseCallsLeft
    /\ j \in JobIds /\ jobs[j].exists
    /\ ExpenseUpdateEffect("JobExpenseService_update", j, costs)

\* PATCH /in-house/update_job/<job_id> with an expenses payload
legacy_JobExpenseService_update(j, costs) ==
    /\ ExpenseCallsLeft
    /\ j \in JobIds /\ jobs[j].exists
    /\ ExpenseUpdateEffect("legacy_JobExpenseService_update", j, costs)

\* the jobs table holds two jobs as _create_job_record leaves them
SeededJobs == {1, 2}

CostLists == {<<>>, <<Unit>>, <<Unit, Unit>>}

InitExpense ==
    /\ stock_level \in [Materials -> {k * Unit : k \in 0..MaxInitStock}]
    /\ initial_stock = stock_level
    /\ stock_transactions = <<>>
    /\ material_usages = <<>>
    /\ machine_readings = <<>>
    /\ job_material_usages = <<>>
    /\ sess = [s \in Sessions |-> IdleSession]
    /\ ops = 0
    /\ jobs = [j \in JobIds |-> IF j \in SeededJobs
                                THEN NewJob(1, "pending", "in_house", 0)
                                ELSE NoJob]
    /\ job_expenses = <<>>
    /\ job_notes = <<>>
    /\ timeframe_logs = <<>>
    /\ clients = <<"555-1234">>
    /\ now = 1
    /\ last = NoCall

NextExpense ==
    \/ \E j \in JobIdInputs, expenses \in ExpenseLists :
          \E ord \in TargetOrders(j, expenses) :
              add_job_expenses(j, expenses, ord)
    \/ \E j \in JobIdInputs, costs \in CostLists :
          JobExpenseService_update(j, costs)
    \/ \E j \in JobIdInputs, costs \in CostLists :
          legacy_JobExpenseService_update(j, costs)

SpecExpense == InitExpense /\ [][NextExpense]_vars

\* ---------------------------------------------------------------- payments
\* the payment with Paid reserved for an amount above total_amount
Job_update_payment_strict(job, payment_amount) ==
    LET paid == job.amount_paid + payment_amount
    IN  [job EXCEPT !.amount_paid = paid,
                    !.payment_status =
                        IF paid > job.total_amount THEN "Paid"
                        ELSE IF paid > 0 THEN "Partially Paid"
                        ELSE "Unpaid",
                    !.total_profit = <<job.total_amount - job.total_cost>>]

\* models/job.py:105-120  Job.update_payment on the loaded job; total_cost
\* is never None for a row the services wrote
Job_update_payment(job, payment_amount) ==
    LET paid == job.amount_paid + payment_amount
    IN  [job EXCEPT !.amount_paid = paid,
                    !.payment_status =
                        IF paid >= job.total_amount THEN "Paid"
                        ELSE IF paid > 0 THEN "Partially Paid"
                        ELSE "Unpaid",
                    !.total_profit = <<job.total_amount - job.total_cost>>]

\* the payment route with amount_paid capped at total_amount
update_payment_clamped(j, payment_amount) ==
    /\ TimeLeft
    /\ IF j \in JobIds /\ jobs[j].exists
       THEN /\ jobs' = [jobs EXCEPT ![j] =
                    LET paid == Job_update_payment(@, payment_amount)
                    IN  [paid EXCEPT !.amount_paid =
                            IF @ > paid.total_amount
                            THEN paid.total_amount ELSE @]]
            /\ last' = [op |-> "update_payment", job_id |-> j,
                        data |-> [amount |-> payment_amount],
                        result |-> "ok", before |-> jobs[j],
                        after |-> jobs'[j]]
       ELSE /\ jobs' = jobs
            /\ last' = [op |-> "update_payment", job_id |-> j,
                        data |-> [amount |-> payment_amount],
                        result |-> "NotFound", before |-> NoJob,
                        after |-> NoJob]
    /\ now' = now + 1
    /\ UNCHANGED <<job_expenses, job_notes, timeframe_logs, clients>>
    /\ UNCHANGED stockVars

\* POST /in-house/jobs/<job_id>/payment: the amount is taken from the JSON
\* body as it is, no schema validates it
update_payment(j, payment_amount) ==
    /\ TimeLeft
    /\ IF j \in JobIds /\ jobs[j].exists
       THEN /\ jobs' = [jobs EXCEPT ![j] = Job_update_payment(@, payment_amount)]
            /\ last' = [op |-> "update_payment", job_id |-> j,
                        data |-> [amount |-> payment_amount],
                        result |-> "ok", before |-> jobs[j],
                        after |-> jobs'[j]]
       ELSE /\ jobs' = jobs
            /\ last' = [op |-> "update_payment", job_id |-> j,
                        data |-> [amount |-> payment_amount],
                        result |-> "NotFound", before |-> NoJob,
                        after |-> NoJob]
    /\ now' = now + 1
    /\ UNCHANGED <<job_expenses, job_notes, timeframe_logs, clients>>
    /\ UNCHANGED stockVars

\* amounts a payment request may carry, in hundredths
PaymentAmounts == {-2 * Unit, -Unit, 0, Unit, 2 * Unit}

\* Job.total_amount of the stored job: no operation of the services writes
\* the column, a created job keeps the default 0.0
TotalAmounts == {0, 2 * Unit}

InitPayment ==
    /\ stock_level \in [Materials -> {k * Unit : k \in 0..MaxInitStock}]
    /\ initial_stock = stock_level
    /\ stock_transactions = <<>>
    /\ material_usages = <<>>
    /\ machine_readings = <<>>
    /\ job_material_usages = <<>>
    /\ sess = [s \in Sessions |-> IdleSession]
    /\ ops = 0
    /\ \E amount \in TotalAmounts :
          jobs = [j \in JobIds |->
                    IF j = 1
                    THEN [NewJob(1, "pending", "in_house", Unit)
                            EXCEPT !.total_amount = amount]
                    ELSE NoJob]
    /\ job_expenses = <<>>
    /\ job_notes = <<>>
    /\ timeframe_logs = <<>>
    /\ clients = <<"555-1234">>
    /\ now = 1
    /\ last = NoCall

NextPayment ==
    \/ \E j \in JobIdInputs, amount \in PaymentAmounts :
          update_payment(j, amount)
    \/ \E phone \in Phones, jtype \in JobTypes :
          create_job(phone, "pending", jtype, 0, 0, Unit, <<>>,
                     [i \in 1..(MaxJobs + 1) |-> i])

SpecPayment == InitPayment /\ [][NextPayment]_vars

\* --------------------------------------------------------------- timeframe
\* JobTimeframeUpdateSchema: a date that is null or absent is 0
TimeframeData ==
    [start_date : Dates, end_date : Dates, reason_for_change : Reasons]

\* JobTimeframeService.update on the job object: the object as the call
\* leaves it, the outcome, whether it was committed, and the change log row
\* of _log_timeframe_change, which reads the dates off the job object
JobTimeframeService_update_call(job, data) ==
    LET started == IF data.start_date # 0
                   THEN [job EXCEPT !.start_date = data.start_date]
                   ELSE job
        ended == IF data.end_date # 0
                 THEN [started EXCEPT !.end_date = data.end_date]
                 ELSE started
    IN  IF /\ data.end_date # 0
           /\ started.start_date # 0
           /\ data.end_date < started.start_date
        THEN [after |-> started, result |-> "InvalidRange",
              committed |-> FALSE, logs |-> <<>>]
        ELSE [after |-> ended, result |-> "ok", committed |-> TRUE,
              logs |-> IF Truthy(data.reason_for_change)
                       THEN <<[old_start_date |-> ended.start_date,
                               old_end_date |-> ended.end_date,
                               reason |-> data.reason_for_change]>>
                       ELSE <<>>]

\* the effect of a timeframe update on the database
TimeframeEffect(opname, j, data, call) ==
    /\ jobs' = IF call.committed THEN [jobs EXCEPT ![j] = call.after] ELSE jobs
    /\ timeframe_logs' = timeframe_logs \o
            [i \in 1..Len(call.logs) |->
                [job_id |-> j, old_start_date |-> call.logs[i].old_start_date,
                 old_end_date |-> call.logs[i].old_end_date,
                 reason |-> call.logs[i].reason]]
    /\ last' = [op |-> opname, job_id |-> j, data |-> data,
                result |-> call.result, before |-> jobs[j],
                after |-> call.after]
    /\ now' = now + 1
    /\ UNCHANGED <<job_expenses, job_notes, clients>>
    /\ UNCHANGED stockVars

\* PATCH /print/jobs/<job_id>/timeframe: routes/jobs.py update_job_timeframe
JobTimeframeService_update(j, data) ==
    /\ TimeLeft
    /\ j \in JobIds /\ jobs[j].exists               \* Job.query.get_or_404
    /\ TimeframeEffect("JobTimeframeService_update", j, data,
                       JobTimeframeService_update_call(jobs[j], data))

\* PATCH /in-house/update_job/<job_id> with a timeframe payload: the update
\* type is timeframe when start_date or end_date is a key of the payload;
\* JobTimeframeService.update of job_service.py has the same body
legacy_JobTimeframeService_update(j, data) ==
    /\ TimeLeft
    /\ j \in JobIds /\ jobs[j].exists
    /\ TimeframeEffect("legacy_JobTimeframeService_update", j, data,
                       JobTimeframeService_update_call(jobs[j], data))

NextTimeframe ==
    \/ \E j \in JobIdInputs, data \in TimeframeData :
          JobTimeframeService_update(j, data)
    \/ \E j \in JobIdInputs, data \in TimeframeData :
          legacy_JobTimeframeService_update(j, data)
    \/ \E phone \in Phones, start \in Dates, end \in Dates :
          create_job(phone, "pending", "in_house", start, end, Unit, <<>>,
                     [i \in 1..(MaxJobs + 1) |-> i])

SpecTimeframe == InitJobSpec /\ [][NextTimeframe]_vars

\* ------------------------------------------- stock adjustment requests
\* concurrent POST /adjust-stock requests with every payload shape
NextAdjust ==
    \/ \E s \in Sessions, m \in MaterialIdInputs, n \in StockLevels,
          adjustment_reason \in AdjustmentReasons, notes \in AdjustmentNotes :
            adjust_stock(s, m, n, adjustment_reason, notes)
    \/ \E s \in Sessions : material_save(s)
    \/ \E s \in Sessions, committed \in BOOLEAN : row_save(s, committed)

SpecAdjust == InitStock /\ [][NextAdjust]_vars

\* ------------------------------------------ concurrent requests on a job
\* POST /in-house/jobs/<job_id>/payment up to job.update_payment: the
\* request loads the Job row into its own session
payment_load(s, j, payment_amount) ==
    /\ CanStart(s)
    /\ LET r == [IdleSession EXCEPT !.op = "update_payment",
                     !.rid = ops + 1, !.job_id = j,
                     !.quantity = payment_amount]
       IN sess' = [sess EXCEPT ![s] =
            IF j \in JobIds /\ jobs[j].exists
            THEN [r EXCEPT !.pc = "job_save", !.job_seen = jobs[j]]
            ELSE Fail(r, "NotFound")]
    /\ ops' = ops + 1
    /\ UNCHANGED <<stock_level, initial_stock, stock_transactions,
                   material_usages, machine_readings, job_material_usages>>
    /\ UNCHANGED jobVars

\* JobExpenseService._allocate_expense of one unshared expense up to
\* `primary_job.total_cost += cost`: the JobExpense row is committed, and
\* the job, expired by that commit, is read again
allocate_load(s, j, cost) ==
    /\ CanStart(s)
    /\ j \in JobIds /\ jobs[j].exists           \* Job.query.get_or_404
    /\ sess' = [sess EXCEPT ![s] =
            [IdleSession EXCEPT !.op = "allocate_expense", !.pc = "job_save",
                !.rid = ops + 1, !.job_id = j, !.quantity = cost,
                !.job_seen = jobs[j]]]
    /\ job_expenses' = Append(job_expenses, [job_id |-> j, cost |-> cost])
    /\ ops' = ops + 1
    /\ UNCHANGED <<stock_level, initial_stock, stock_transactions,
                   material_usages, machine_readings, job_material_usages>>
    /\ UNCHANGED <<jobs, job_notes, timeframe_logs, clients, now, last>>

\* the columns of the loaded job that the request changed
job_dirty(r) ==
    IF r.op = "update_payment"
    THEN Job_update_payment(r.job_seen, r.quantity)
    ELSE [r.job_seen EXCEPT !.total_cost = @ + r.quantity]

\* BaseModel.save of the loaded Job: the UPDATE sets every column the
\* request changed to the value computed from the row it loaded
job_save(s) ==
    /\ sess[s].pc = "job_save"
    /\ LET r == sess[s]
           seen == r.job_seen
           new == job_dirty(r)
           old == jobs[r.job_id]
       IN jobs' = [jobs EXCEPT ![r.job_id] =
            [old EXCEPT
                !.amount_paid =
                    IF new.amount_paid # seen.amount_paid
                    THEN new.amount_paid ELSE old.amount_paid,
                !.payment_status =
                    IF new.payment_status # seen.payment_status
                    THEN new.payment_status ELSE old.payment_status,
                !.total_profit =
                    IF new.total_profit # seen.total_profit
                    THEN new.total_profit ELSE old.total_profit,
                !.total_cost =
                    IF new.total_cost # seen.total_cost
                    THEN new.total_cost ELSE old.total_cost]]
    /\ sess' = [sess EXCEPT ![s].pc = "done", ![s].result = "ok"]
    /\ UNCHANGED <<stock_level, initial_stock, stock_transactions,
                   material_usages, machine_readings, job_material_usages,
                   ops>>
    /\ UNCHANGED <<job_expenses, job_notes, timeframe_logs, clients, now,
                   last>>

NextJobRow ==
    \/ \E s \in Sessions, j \in JobIdInputs, amount \in PaymentAmounts :
          payment_load(s, j, amount)
    \/ \E s \in Sessions, j \in JobIds, cost \in Quantities :
          allocate_load(s, j, cost)
    \/ \E s \in Sessions : job_save(s)

SpecJobRow == InitPayment /\ [][NextJobRow]_vars

\* ------------------------------------------ concurrent job creation
\* phone numbers of the create payloads
ClientPhones == {"555-1234", "555-9876"}

\* the INSERT passes however many rows hold the phone number
Client_phone_number_not_unique(rows, phone_number) == TRUE

\* models/client.py:11  phone_number ... unique=True: the INSERT of a
\* second row with the phone number raises
Client_phone_number_unique(rows, phone_number) ==
    phone_number \notin Range(rows)

\* routes/jobs.py:70-75 and client_service.py:11-13: the lookup by phone
client_find(s, phone_number) ==
    /\ CanStart(s)
    /\ LET r == [IdleSession EXCEPT !.op = "create_job", !.rid = ops + 1,
                     !.phone_number = phone_number]
       IN sess' = [sess EXCEPT ![s] =
            IF phone_number \in Range(clients)
            THEN [r EXCEPT !.pc = "job_insert",
                           !.client_id = ClientId(clients, phone_number)]
            ELSE [r EXCEPT !.pc = "client_save"]]
    /\ ops' = ops + 1
    /\ UNCHANGED <<stock_level, initial_stock, stock_transactions,
                   material_usages, machine_readings, job_material_usages>>
    /\ UNCHANGED jobVars

\* client_service.py:16-17  new_client.save(): the commit of the INSERT,
\* or the IntegrityError that save() re-raises and the route answers
client_save(s) ==
    /\ sess[s].pc = "client_save"
    /\ IF Client_phone_number_unique(clients, sess[s].phone_number)
       THEN /\ clients' = Append(clients, sess[s].phone_number)
            /\ sess' = [sess EXCEPT ![s].pc = "job_insert",
                                    ![s].client_id = Len(clients) + 1]
       ELSE /\ clients' = clients
            /\ sess' = [sess EXCEPT ![s] = Fail(@, "Error")]
    /\ UNCHANGED <<stock_level, initial_stock, stock_transactions,
                   material_usages, machine_readings, job_material_usages,
                   ops>>
    /\ UNCHANGED <<jobs, job_expenses, job_notes, timeframe_logs, now, last>>

\* routes/jobs.py:83-100 and JobService.create_job: the job row of a
\* payload with no timeframe and no expenses, with client_id = client.id
job_insert(s) ==
    /\ sess[s].pc = "job_insert"
    /\ NextJobId \in JobIds
    /\ jobs' = [jobs EXCEPT ![NextJobId] =
                    NewJob(sess[s].client_id, "pending", "in_house", 0)]
    /\ sess' = [sess EXCEPT ![s].pc = "done", ![s].result = "ok",
                            ![s].job_id = NextJobId]
    /\ UNCHANGED <<stock_level, initial_stock, stock_transactions,
                   material_usages, machine_readings, job_material_usages,
                   ops>>
    /\ UNCHANGED <<job_expenses, job_notes, timeframe_logs, clients, now,
                   last>>

\* the clients table is empty or holds one client, who has no job yet
InitClient ==
    /\ stock_level \in [Materials -> {k * Unit : k \in 0..MaxInitStock}]
    /\ initial_stock = stock_level
    /\ stock_transactions = <<>>
    /\ material_usages = <<>>
    /\ machine_readings = <<>>
    /\ job_material_usages = <<>>
    /\ sess = [s \in Sessions |-> IdleSession]
    /\ ops = 0
    /\ jobs = [j \in JobIds |-> NoJob]
    /\ job_expenses = <<>>
    /\ job_notes = <<>>
    /\ timeframe_logs = <<>>
    /\ clients \in {<<>>, <<"555-1234">>}
    /\ now = 1
    /\ last = NoCall

NextClient ==
    \/ \E s \in Sessions, phone_number \in ClientPhones :
          client_find(s, phone_number)
    \/ \E s \in Sessions : client_save(s)
    \/ \E s \in Sessions : job_insert(s)

SpecClient == InitClient /\ [][NextClient]_vars

\* ------------------------------------- the lifecycle operations together
\* a stored job with a cost and a price, pending or in progress, and a
\* material that was restocked once
InitLifecycle ==
    /\ initial_stock = [m \in Materials |-> Unit]
    /\ stock_level = [m \in Materials |-> 2 * Unit]
    /\ stock_transactions =
            <<[rid |-> 0, material_id |-> 1, transaction_type |-> "RESTOCK",
               quantity |-> Unit, previous_stock |-> Unit,
               new_stock |-> 2 * Unit]>>
    /\ material_usages = <<>>
    /\ machine_readings = <<>>
    /\ job_material_usages = <<>>
    /\ sess = [s \in Sessions |-> IdleSession]
    /\ ops = 0
    /\ \E amount \in TotalAmounts, status \in {"pending", "in_progress"} :
          jobs = [j \in JobIds |->
                    IF j = 1
                    THEN [NewJob(1, status, "in_house", Unit)
                            EXCEPT !.total_amount = amount]
                    ELSE NoJob]
    /\ job_expenses = <<>>
    /\ job_notes = <<>>
    /\ timeframe_logs = <<>>
    /\ clients = <<"555-1234">>
    /\ now = 2                  \* the job and the restock date from 1
    /\ last = NoCall

NextLifecycle ==
    \/ \E j \in JobIdInputs, data \in ProgressData :
          JobProgressService_update(j, data)
    \/ \E j \in JobIdInputs, data \in ProgressData :
          legacy_JobProgressService_update(j, data)
    \/ \E j \in JobIdInputs, data \in TimeframeData :
          JobTimeframeService_update(j, data)
    \/ \E j \in JobIdInputs, data \in TimeframeData :
          legacy_JobTimeframeService_update(j, data)
    \/ \E j \in JobIdInputs, amount \in PaymentAmounts :
          update_payment(j, amount)

SpecLifecycle == InitLifecycle /\ [][NextLifecycle]_vars

\* ------------------------------------------------ claims on the ledger
Quiescent == \A s \in Sessions : sess[s].pc \in {"idle", "done"}

\* every request started so far is still visible in a session
AllVisible == Cardinality({s \in Sessions : sess[s].pc = "done"}) = ops

HasRow(rows, rid) == \E i \in 1..Len(rows) : rows[i].rid = rid

\* C1: in every reachable state every Material's stock_level is >= 0.
C1_StockNeverNegative == \A m \in Materials : stock_level[m] >= 0

\* C2: record_material_usage called with quantity + wastage greater than
\* the material's current stock_level fails with InsufficientStock, does
\* not write stock_level and persists no MaterialUsage row.
C2_InsufficientStockRejected ==
    \A s \in Sessions :
        LET r == sess[s] IN
        (/\ r.op = "record_material_usage"
         /\ r.material_id \in Materials
         /\ r.quantity + r.wastage > r.stock_seen)
        => /\ r.pc = "done"
           /\ r.result = "InsufficientStock"
           /\ ~r.stock_written
           /\ ~HasRow(material_usages, r.rid)

\* the stock is positive, the request asks for more and is rejected
C2_Witness ==
    \E s \in Sessions :
        /\ sess[s].op = "record_material_usage"
        /\ sess[s].result = "InsufficientStock"
        /\ sess[s].stock_seen > 0
        /\ sess[s].quantity <= sess[s].stock_seen
        /\ stock_level[sess[s].material_id] = sess[s].stock_seen

\* C3: after any sequence of successful Restock, AdjustStock and
\* DeductUsage operations, stock_level equals the initial stock plus the
\* sum of the quantity deltas of the material's StockTransaction rows.
C3_StockReconciliation ==
    (/\ Quiescent
     /\ AllVisible
     /\ \A s \in Sessions : sess[s].pc = "done" =>
            /\ sess[s].op \in {"record_material_usage", "restock_material",
                               "adjust_stock"}
            /\ sess[s].result = "ok")
    => \A m \in Materials :
          stock_level[m] = initial_stock[m] + SumQuantity(stock_transactions, m)

\* C4: two concurrent DeductUsage calls on one material that each fit the
\* stock but together exceed it: at most one succeeds, the stock stays
\* >= 0 and ends at the initial stock minus the successful deductions.
C4_NoLostUpdate ==
    \A a \in Sessions, b \in Sessions :
        LET ra == sess[a]
            rb == sess[b] IN
        (/\ a # b
         /\ ra.op = "record_material_usage" /\ rb.op = "record_material_usage"
         /\ ra.pc = "done" /\ rb.pc = "done"
         /\ ra.result # "Error" /\ rb.result # "Error"
         /\ ra.material_id \in Materials
         /\ rb.material_id = ra.material_id
         /\ rb.peer = ra.rid
         /\ ra.quantity + ra.wastage <= ra.stock_seen
         /\ rb.quantity + rb.wastage <= rb.stock_seen
         /\ ra.quantity + ra.wastage + rb.quantity + rb.wastage > ra.stock_seen)
        => /\ ~(ra.result = "ok" /\ rb.result = "ok")
           /\ stock_level[ra.material_id] >= 0
           /\ ops = 2 =>
                stock_level[ra.material_id] =
                    initial_stock[ra.material_id]
                    - (IF ra.result = "ok" THEN ra.quantity + ra.wastage ELSE 0)
                    - (IF rb.result = "ok" THEN rb.quantity + rb.wastage ELSE 0)

\* C5: DeductUsage is all-or-nothing: once the call is over, the stock
\* was decremented if and only if the MaterialUsage row is persisted.
C5_DeductAllOrNothing ==
    \A s \in Sessions :
        (sess[s].op = "record_material_usage" /\ sess[s].pc = "done")
        => (sess[s].stock_written <=> HasRow(material_usages, sess[s].rid))

\* C6: Restock and AdjustStock are atomic: once the call is over, the
\* stock was written if and only if its StockTransaction is persisted.
C6_LedgerWriteAtomic ==
    \A s \in Sessions :
        (sess[s].op \in {"restock_material", "adjust_stock"}
            /\ sess[s].pc = "done")
        => (sess[s].stock_written <=> HasRow(stock_transactions, sess[s].rid))

\* ------------------------------------------- claims on the job lifecycle
ProgressCalls == {"JobProgressService_update", "legacy_JobProgressService_update"}

\* the allowed-transition table as the specification states it
SpecTransitions ==
    {<<"pending", "in_progress">>, <<"pending", "cancelled">>,
     <<"in_progress", "on_hold">>, <<"in_progress", "completed">>,
     <<"in_progress", "cancelled">>, <<"on_hold", "in_progress">>,
     <<"on_hold", "cancelled">>, <<"completed", "in_progress">>}

\* C7: UpdateProgress for a pair (from, to) outside the allowed-transition
\* table, from = to included, fails with InvalidTransition and leaves the
\* job, its progress_status included, unchanged.
C7_TransitionClosure ==
    (/\ last.op \in ProgressCalls
     /\ <<last.before.progress_status, last.data.progress_status>>
            \notin SpecTransitions)
    => /\ last.result = "InvalidTransition"
       /\ last.after = last.before
       /\ jobs[last.job_id] = last.before

\* a completed job is asked to go to cancelled and the call is rejected
C7_Witness ==
    /\ last.op \in ProgressCalls
    /\ last.before.progress_status = "completed"
    /\ last.before.last_status_change # 0
    /\ last.data.progress_status = "cancelled"
    /\ last.result = "InvalidTransition"

\* C8: UpdateProgress to cancelled without a reason, from a status that
\* allows cancellation, fails with MissingReason and the job keeps its
\* progress_status, cancelled_at, cancellation_reason, last_status_change.
C8_CancelNeedsReason ==
    (/\ last.op \in ProgressCalls
     /\ last.data.progress_status = "cancelled"
     /\ <<last.before.progress_status, "cancelled">> \in SpecTransitions
     /\ ~Truthy(last.data.reason_for_status_change))
    => /\ last.result = "MissingReason"
       /\ last.after.progress_status = last.before.progress_status
       /\ last.after.cancelled_at = last.before.cancelled_at
       /\ last.after.cancellation_reason = last.before.cancellation_reason
       /\ last.after.last_status_change = last.before.last_status_change
       /\ jobs[last.job_id] = last.before

\* C9: once a job is cancelled, every later UpdateProgress call on it
\* fails with InvalidTransition and its progress_status stays cancelled.
C9_CancellationTerminal ==
    [][\A j \in JobIds :
          (jobs[j].exists /\ jobs[j].progress_status = "cancelled")
          => /\ jobs'[j].progress_status = "cancelled"
             /\ (now' # now /\ last'.op \in ProgressCalls /\ last'.job_id = j)
                => last'.result = "InvalidTransition"]_vars

\* a job cancelled with a reason has been asked to move on and was refused
C9_Witness ==
    /\ last.op \in ProgressCalls
    /\ last.before.progress_status = "cancelled"
    /\ last.before.cancelled_at # 0
    /\ Truthy(last.before.cancellation_reason)
    /\ last.data.progress_status = "in_progress"
    /\ last.result = "InvalidTransition"
    /\ jobs[last.job_id].progress_status = "cancelled"

\* C10: a CreateJob that fails leaves no Job row, no material-usage row
\* and no JobExpense row behind, and every stock_level as it was.
C10_CreateJobAtomic ==
    [][(/\ now' # now
        /\ last'.op \in {"create_job", "legacy_create_job"}
        /\ last'.result # "ok")
       => /\ jobs' = jobs
          /\ job_expenses' = job_expenses
          /\ material_usages' = material_usages
          /\ job_material_usages' = job_material_usages
          /\ stock_level' = stock_level]_vars

\* -------------------------------------------------- claims on expenses
\* the target set of an expense as the specification resolves it
TargetSet(primary, expense) ==
    IF expense.shared /\ expense.job_ids # <<>>
    THEN {expense.job_ids[i] : i \in 1..Len(expense.job_ids)} \cup {primary}
    ELSE {primary}

\* the step is a call of Allocate with one expense
AllocateCall ==
    /\ now' # now
    /\ last'.op = "add_job_expenses"
    /\ Len(last'.data.expenses) = 1

\* C11: after a successful Allocate of an expense with cost c, the
\* total_cost of every job in the target set has increased by exactly c.
C11_ExpenseReplication ==
    [][(AllocateCall /\ last'.result = "ok")
       => \A t \in TargetSet(last'.job_id, last'.data.expenses[1]) :
            jobs'[t].total_cost
                = jobs[t].total_cost + last'.data.expenses[1].cost]_vars

\* C12: if a job of the target set does not exist, Allocate fails with
\* NotFound, leaves no JobExpense row and changes no job's total_cost.
C12_NotFoundAbortsAllocation ==
    [][(/\ AllocateCall
        /\ \E t \in TargetSet(last'.job_id, last'.data.expenses[1]) :
              t \notin JobIds \/ ~jobs[t].exists)
       => /\ last'.result = "NotFound"
          /\ job_expenses' = job_expenses
          /\ jobs' = jobs]_vars

\* C13: a successful Allocate appends exactly one JobExpense row per job
\* of the resolved target set, each with the full cost, and returns
\* exactly one allocation record per row.
C13_OneRowPerTarget ==
    [][(AllocateCall /\ last'.result = "ok")
       => LET e == last'.data.expenses[1]
              T == TargetSet(last'.job_id, e)
              n == Len(job_expenses)
              added == {i \in 1..Len(job_expenses') : i > n}
          IN /\ SubSeq(job_expenses', 1, n) = job_expenses
             /\ Cardinality(added) = Cardinality(T)
             /\ \A t \in T :
                  Cardinality({i \in added : job_expenses'[i].job_id = t}) = 1
             /\ \A i \in added : /\ job_expenses'[i].job_id \in T
                                 /\ job_expenses'[i].cost = e.cost
             /\ Len(last'.records) = Cardinality(added)
             /\ \A i \in added :
                  last'.records[i - n] = job_expenses'[i]]_vars

\* a shared expense that lists the other job twice has been allocated
C13_Witness ==
    /\ last.op = "add_job_expenses"
    /\ last.result = "ok"
    /\ Len(last.data.expenses) = 1
    /\ last.data.expenses[1].shared
    /\ last.data.expenses[1].job_ids = <<2, 2>>
    /\ last.job_id = 1
    /\ Len(last.records) = 2
    /\ Len(job_expenses) >= 2

\* C16: whenever an operation changes a job's total_cost, the job's
\* total_profit afterwards equals total_amount minus total_cost.
C16_ProfitRecomputed ==
    [][\A j \in JobIds :
          (jobs[j].exists /\ jobs'[j].total_cost # jobs[j].total_cost)
          => jobs'[j].total_profit
                = <<jobs'[j].total_amount - jobs'[j].total_cost>>]_vars

\* -------------------------------------------------- claims on payments
PaymentDone == last.op = "update_payment" /\ last.result = "ok"

\* payment_status as the specification derives it from the amounts
DerivedStatus(amount_paid, total_amount) ==
    IF amount_paid >= total_amount THEN "Paid"
    ELSE IF 0 < amount_paid /\ amount_paid < total_amount
         THEN "Partially Paid"
         ELSE "Unpaid"

\* C14: RecordPayment(job, 0) leaves amount_paid and payment_status
\* unchanged, also on a job that was just created and never paid.
C14_ZeroPaymentNoChange ==
    (PaymentDone /\ last.data.amount = 0)
    => /\ last.after.amount_paid = last.before.amount_paid
       /\ last.after.payment_status = last.before.payment_status
       /\ jobs[last.job_id].amount_paid = last.before.amount_paid
       /\ jobs[last.job_id].payment_status = last.before.payment_status

\* the sums and the derived columns after a payment
PaymentMath ==
    /\ last.after.amount_paid = last.before.amount_paid + last.data.amount
    /\ last.after.payment_status
          = DerivedStatus(last.after.amount_paid, last.after.total_amount)
    /\ last.after.total_profit
          = <<last.after.total_amount - last.after.total_cost>>
    /\ last.after.total_amount = last.before.total_amount
    /\ last.after.total_cost = last.before.total_cost
    /\ jobs[last.job_id] = last.after

\* C15 as stated: after RecordPayment the sums and derived columns are as
\* specified, and paying exactly total_amount on an Unpaid job yields Paid.
C15_PaymentMath ==
    PaymentDone
    => /\ PaymentMath
       /\ (/\ last.before.payment_status = "Unpaid"
           /\ last.data.amount = last.before.total_amount)
          => last.after.payment_status = "Paid"

\* C15 amended: after RecordPayment the sums and derived columns are as
\* specified, and paying exactly total_amount on an Unpaid job whose
\* amount_paid is 0 yields Paid.
C15_PaymentMathAmended ==
    PaymentDone
    => /\ PaymentMath
       /\ (/\ last.before.payment_status = "Unpaid"
           /\ last.before.amount_paid = 0
           /\ last.data.amount = last.before.total_amount)
          => last.after.payment_status = "Paid"

\* an Unpaid job with a positive total_amount is paid in full in one call
C15_Witness ==
    /\ PaymentDone
    /\ last.before.payment_status = "Unpaid"
    /\ last.before.amount_paid = 0
    /\ last.before.total_amount > 0
    /\ last.data.amount = last.before.total_amount
    /\ last.after.payment_status = "Paid"
    /\ jobs[last.job_id].amount_paid = last.before.total_amount

\* ----------------------------------------------- claims on the timeframe
TimeframeCalls ==
    {"JobTimeframeService_update", "legacy_JobTimeframeService_update"}

\* the date a timeframe update results in: the supplied one, else the old
Resulting(supplied, old) == IF supplied # 0 THEN supplied ELSE old

\* C17: UpdateTimeframe fails with InvalidRange whenever the resulting end
\* date is earlier than the resulting start date, whichever dates the call
\* supplies, and every job with both dates set has start_date <= end_date.
C17_TimeframeOrdered ==
    /\ (/\ last.op \in TimeframeCalls
        /\ Resulting(last.data.start_date, last.before.start_date) # 0
        /\ Resulting(last.data.end_date, last.before.end_date) # 0
        /\ Resulting(last.data.end_date, last.before.end_date)
             < Resulting(last.data.start_date, last.before.start_date))
       => last.result = "InvalidRange"
    /\ \A j \in JobIds :
          (jobs[j].exists /\ jobs[j].start_date # 0 /\ jobs[j].end_date # 0)
          => jobs[j].start_date <= jobs[j].end_date

\* C18: a successful UpdateTimeframe with a reason writes exactly one
\* JobTimeframeChangeLog row, holding the job's start and end dates as
\* they were before the update; without a reason it writes no row.
C18_LogHoldsOldDates ==
    [][(/\ now' # now
        /\ last'.op \in TimeframeCalls
        /\ last'.result = "ok")
       => IF Truthy(last'.data.reason_for_change)
          THEN /\ Len(timeframe_logs') = Len(timeframe_logs) + 1
               /\ SubSeq(timeframe_logs', 1, Len(timeframe_logs))
                    = timeframe_logs
               /\ LET row == timeframe_logs'[Len(timeframe_logs')]
                  IN /\ row.job_id = last'.job_id
                     /\ row.old_start_date = jobs[last'.job_id].start_date
                     /\ row.old_end_date = jobs[last'.job_id].end_date
          ELSE timeframe_logs' = timeframe_logs]_vars

\* ------------------------------------- claims on completion and material
\* C19: after every successful UpdateProgress to completed, completed_at
\* is set: to the supplied completedAt when one is given, and to the
\* current time otherwise, also when the payload carries a null.
C19_CompletedAtSet ==
    (/\ last.op \in ProgressCalls
     /\ last.result = "ok"
     /\ last.data.progress_status = "completed")
    => /\ jobs[last.job_id].completed_at # 0
       /\ jobs[last.job_id].completed_at =
            IF last.data.completed_at \notin {Absent, 0}
            THEN last.data.completed_at
            ELSE jobs[last.job_id].last_status_change

\* C20: JobMaterialService.update is all-or-nothing: once the call is
\* over, the stock was decremented if and only if the usage row is
\* persisted, and the job's total_cost holds the cost of persisted rows only.
C20_JobMaterialAllOrNothing ==
    /\ \A s \in Sessions :
          (sess[s].op = "JobMaterialService_update" /\ sess[s].pc = "done")
          => (sess[s].stock_written
                <=> HasRow(job_material_usages, sess[s].rid))
    /\ \A j \in JobIds :
          jobs[j].exists =>
            jobs[j].total_cost =
                InitJobs[j].total_cost
                + SumCosts([i \in 1..Len(job_material_usages) |->
                              IF job_material_usages[i].job_id = j
                              THEN job_material_usages[i].cost ELSE 0])

\* ------------------------------------------- claims of the later ledger
\* C21: recording machine usage deducts (end - start) * (1 + margin) under
\* the DeductUsage check: a usage greater than the stock fails with
\* InsufficientStock, writes no stock and no MachineReading; a successful
\* call has written both the stock and the MachineReading.
C21_MachineUsageChecked ==
    \A s \in Sessions :
        LET r == sess[s] IN
        (/\ r.op = "log_machine_usage"
         /\ r.job_id \in JobIds /\ jobs[r.job_id].exists
         /\ r.material_id \in Materials)
        => /\ r.quantity = (r.end_meter - r.start_meter) * (Unit + material_margin)
           /\ r.quantity > r.stock_seen
                => /\ r.pc = "done"
                   /\ r.result = "InsufficientStock"
                   /\ ~r.stock_written
                   /\ ~HasRow(machine_readings, r.rid)
           /\ (r.pc = "done" /\ r.result = "ok")
                => /\ r.stock_written
                   /\ HasRow(machine_readings, r.rid)

BothDone(a, b, opname) ==
    /\ ops = 2
    /\ sess[a].rid = 1 /\ sess[b].rid = 2
    /\ sess[a].op = opname /\ sess[b].op = opname
    /\ sess[a].pc = "done" /\ sess[b].pc = "done"
    /\ sess[a].result = "ok" /\ sess[b].result = "ok"
    /\ sess[a].job_id = sess[b].job_id

\* C23: no update of a Job row is lost: after two RecordPayment requests
\* of a and b on a job, in any interleaving, amount_paid is the initial
\* value + a + b; after two expense allocations of c and d, total_cost is
\* the initial value + c + d.
C23_NoLostJobUpdate ==
    \A a \in Sessions, b \in Sessions :
        /\ BothDone(a, b, "update_payment")
            => jobs[sess[a].job_id].amount_paid =
                 sess[a].job_seen.amount_paid + sess[a].quantity
                                              + sess[b].quantity
        /\ BothDone(a, b, "allocate_expense")
            => jobs[sess[a].job_id].total_cost =
                 sess[a].job_seen.total_cost + sess[a].quantity
                                             + sess[b].quantity

\* C24: for any interleaving of CreateJob requests there is at most one
\* Client row per phone number (so a request naming a phone number that
\* has a Client adds none), and every job created for a phone number
\* references the one Client with that phone number.
C24_ClientFindOrCreate ==
    /\ \A i \in 1..Len(clients), k \in 1..Len(clients) :
          clients[i] = clients[k] => i = k
    /\ \A s \in Sessions :
          (sess[s].op = "create_job" /\ sess[s].pc = "done"
              /\ sess[s].result = "ok")
          => /\ jobs[sess[s].job_id].exists
             /\ jobs[sess[s].job_id].client_id \in 1..Len(clients)
             /\ clients[jobs[sess[s].job_id].client_id] = sess[s].phone_number
    /\ \A s \in Sessions, t \in Sessions :
          (/\ sess[s].op = "create_job" /\ sess[t].op = "create_job"
           /\ sess[s].result = "ok" /\ sess[t].result = "ok"
           /\ sess[s].phone_number = sess[t].phone_number)
          => jobs[sess[s].job_id].client_id = jobs[sess[t].job_id].client_id

\* two requests for a phone number with no Client both missed the lookup;
\* one created the Client and its job, the other is at its INSERT
C24_Witness ==
    \E s \in Sessions, t \in Sessions :
        /\ s # t
        /\ sess[s].op = "create_job" /\ sess[t].op = "create_job"
        /\ sess[s].phone_number = sess[t].phone_number
        /\ sess[s].result = "ok"
        /\ sess[t].pc = "done" /\ sess[t].result = "Error"
        /\ Len(clients) = 2

\* C25: the stock ledger is append-only: no step changes or removes a
\* StockTransaction that is written, the ledger only grows at its end.
C25_LedgerAppendOnly ==
    [][/\ Len(stock_transactions') >= Len(stock_transactions)
       /\ \A i \in 1..Len(stock_transactions) :
             stock_transactions'[i] = stock_transactions[i]]_vars

\* a second transaction of a material is written after its first one
C25_Witness ==
    /\ Len(stock_transactions) = 2
    /\ stock_transactions[1].material_id = stock_transactions[2].material_id
    /\ stock_transactions[1].transaction_type = "RESTOCK"
    /\ stock_transactions[2].transaction_type = "ADJUSTMENT"

\* the StockTransaction of request rid
TransactionOf(rid) ==
    stock_transactions[CHOOSE i \in 1..Len(stock_transactions) :
                          stock_transactions[i].rid = rid]

\* no other request wrote the material between the load and the end of
\* session s's request: none had it loaded when s began, none began later
Undisturbed(s) == sess[s].peer = 0 /\ sess[s].rid = ops

\* C26: the transaction of a successful Restock holds the stock the call
\* found as previous_stock and the stock it wrote as new_stock =
\* previous_stock + quantity; the transaction of a successful AdjustStock
\* holds the requested level, which is the stock it wrote, as new_stock,
\* and quantity = new_stock - previous_stock. With no other writer in
\* between, that is the stock before and the stock after the call.
C26_TransactionSnapshot ==
    \A s \in Sessions :
        LET r == sess[s] IN
        (/\ r.op \in {"restock_material", "adjust_stock"}
         /\ r.pc = "done" /\ r.result = "ok")
        => /\ HasRow(stock_transactions, r.rid)
           /\ LET tx == TransactionOf(r.rid) IN
              /\ tx.material_id = r.material_id
              /\ tx.previous_stock = r.stock_seen
              /\ ops = 1 => tx.previous_stock = initial_stock[r.material_id]
              /\ tx.new_stock = r.stock_new
              /\ Undisturbed(s) => tx.new_stock = stock_level[r.material_id]
              /\ tx.quantity = tx.new_stock - tx.previous_stock
              /\ r.op = "restock_material"
                    => /\ tx.transaction_type = "RESTOCK"
                       /\ tx.quantity = r.quantity
              /\ r.op = "adjust_stock"
                    => /\ tx.transaction_type = "ADJUSTMENT"
                       /\ tx.new_stock = r.quantity

\* a restock and then an adjustment to another level have both gone
\* through, the adjustment on the stock the restock left
C26_Witness ==
    \E s \in Sessions, t \in Sessions :
        /\ sess[s].op = "restock_material" /\ sess[s].result = "ok"
        /\ sess[t].op = "adjust_stock" /\ sess[t].result = "ok"
        /\ sess[s].rid = 1 /\ sess[t].rid = 2
        /\ Undisturbed(t)
        /\ sess[t].stock_seen = sess[s].stock_new
        /\ sess[t].quantity # sess[t].stock_seen
        /\ HasRow(stock_transactions, 2)

\* the payment exceeds what is left to pay
Overpaying ==
    last.before.amount_paid + last.data.amount > last.before.total_amount

\* the job was overpaid before this payment
Overpaid ==
    /\ last.before.amount_paid > last.before.total_amount
    /\ last.before.payment_status = "Paid"

\* the full sum is stored and the status is Paid
StoredUnclamped ==
    /\ last.after.amount_paid = last.before.amount_paid + last.data.amount
    /\ last.after.payment_status = "Paid"
    /\ jobs[last.job_id].amount_paid = last.after.amount_paid
    /\ jobs[last.job_id].payment_status = "Paid"

\* C27 as stated: a payment that takes amount_paid above total_amount
\* stores the full sum with status Paid, and every further payment on the
\* overpaid job keeps the status Paid.
C27_OverpaymentUnclamped ==
    PaymentDone
    => /\ Overpaying => StoredUnclamped
       /\ Overpaid => jobs[last.job_id].payment_status = "Paid"

\* C27 amended: a payment that takes amount_paid above total_amount stores
\* the full sum with status Paid, and every further payment of an amount
\* >= 0 on the overpaid job keeps the status Paid.
C27_OverpaymentUnclampedAmended ==
    PaymentDone
    => /\ Overpaying => StoredUnclamped
       /\ (Overpaid /\ last.data.amount >= 0)
            => jobs[last.job_id].payment_status = "Paid"

\* a positive payment on a job that is already overpaid
C27_Witness ==
    /\ PaymentDone
    /\ Overpaid
    /\ last.before.total_amount > 0
    /\ last.data.amount > 0
    /\ jobs[last.job_id].amount_paid
          = last.before.amount_paid + last.data.amount
    /\ jobs[last.job_id].payment_status = "Paid"

C29_CreatedPending ==
    [][(/\ now' # now
        /\ last'.op \in {"create_job", "legacy_create_job"}
        /\ last'.result = "ok")
       => /\ ~jobs[last'.job_id].exists
          /\ jobs'[last'.job_id].exists
          /\ jobs'[last'.job_id].progress_status = "pending"]_vars

\* ------------------------------------------------------ claims on frames
\* C30: UpdateProgress and UpdateTimeframe, whether they succeed or fail,
\* change no job's total_cost, total_amount, amount_paid or payment_status,
\* no stock_level and no StockTransaction; RecordPayment changes no job's
\* progress_status, total_cost, start_date or end_date.
C30_LifecycleFrame ==
    [][/\ (now' # now /\ last'.op \in ProgressCalls \cup TimeframeCalls)
            => /\ \A j \in JobIds :
                    /\ jobs'[j].total_cost = jobs[j].total_cost
                    /\ jobs'[j].total_amount = jobs[j].total_amount
                    /\ jobs'[j].amount_paid = jobs[j].amount_paid
                    /\ jobs'[j].payment_status = jobs[j].payment_status
               /\ stock_level' = stock_level
               /\ stock_transactions' = stock_transactions
       /\ (now' # now /\ last'.op = "update_payment")
            => \A j \in JobIds :
                    /\ jobs'[j].progress_status = jobs[j].progress_status
                    /\ jobs'[j].total_cost = jobs[j].total_cost
                    /\ jobs'[j].start_date = jobs[j].start_date
                    /\ jobs'[j].end_date = jobs[j].end_date]_vars

\* a part-paid job with dates, on a restocked material, has been completed
C30_Witness ==
    /\ last.op \in ProgressCalls
    /\ last.result = "ok"
    /\ last.data.progress_status = "completed"
    /\ jobs[last.job_id].progress_status = "completed"
    /\ jobs[last.job_id].payment_status = "Partially Paid"
    /\ jobs[last.job_id].amount_paid > 0
    /\ jobs[last.job_id].total_cost > 0
    /\ Len(stock_transactions) > 0
    /\ \A m \in Materials : stock_level[m] > 0

====
